---- MODULE Spec2Model ----
(***************************************************************************)
(* Model of grinex-rate-service: the trade price extractor                 *)
(* (internal/service/grinex.go), the quote store and its queries           *)
(* (internal/database), the two RPC handlers GetRates and Healthcheck and  *)
(* the life cycle of StartServer (server/server.go, cmd/main.go), and the  *)
(* configuration loader (internal/config/config.go).                       *)
(*                                                                         *)
(* float64 values are records [nan, v]: v is the value in hundredths, the  *)
(* two infinities are the extreme values of v, and nan marks IEEE NaN,     *)
(* for which every ordered comparison and == is false.  Instants are Unix  *)
(* seconds.  Go's nil error is the string "<nil>".                         *)
(***************************************************************************)
EXTENDS Integers, Sequences, FiniteSets, TLC

VARIABLES
    input,      \* harness: the upstream reply handed to the functions under test
    calc,       \* harness: result of calculatePricesFromTrades(input.body.trades)
    fetched,    \* harness: result of GetUSDTRate on input
    req,        \* server: one record per RPC request (handler locals, reply)
    records,    \* store: rows of table rates, in insertion order
    nextID,     \* store: next value of the BIGSERIAL id sequence
    now,        \* wall clock, Unix seconds
    srv,        \* process: phase of StartServer, the 30 s shutdown timer, and the
                \* requests whose context has been cancelled
    dbq,        \* harness: the last call of a Database method and what it returned
    conf        \* harness: environment, command line and the Config that Load returned

vars == <<input, calc, fetched, req, records, nextID, now, srv, dbq, conf>>

-----------------------------------------------------------------------------
(* Bounds *)

MaxTrades == 3      \* longest trade list of the extractor harness
MaxReq == 2         \* RPC requests handled (concurrently) in one behaviour
MaxTicks == 1       \* clock ticks in one behaviour
MaxRows == 3        \* rows the store harness writes in one behaviour
MaxOptionsSet == 2  \* options given through the environment, and through flags, in one run

StatusOK == 200
StatusInternalServerError == 500
\* a 2xx value of resp.StatusCode other than 200 (an input of the upstream)
StatusNoContent == 204

NilErr == "<nil>"

-----------------------------------------------------------------------------
(* float64 *)

F(v) == [nan |-> FALSE, v |-> v]
NaN == [nan |-> TRUE, v |-> 0]
PosInf == F(2000000000)
Zero == F(0)

isNaN(x) == x.nan
FLt(a, b) == ~a.nan /\ ~b.nan /\ a.v < b.v
FGe(a, b) == ~a.nan /\ ~b.nan /\ a.v >= b.v
FEq(a, b) == ~a.nan /\ ~b.nan /\ a.v = b.v

\* strconv.ParseFloat(s, 64) on the price strings of the model.
ParseFloat(s) ==
    CASE s = "81.25" -> [err |-> NilErr, f |-> F(8125)]
      [] s = "81.20" -> [err |-> NilErr, f |-> F(8120)]
      [] s = "81.30" -> [err |-> NilErr, f |-> F(8130)]
      [] s = "81.15" -> [err |-> NilErr, f |-> F(8115)]
      [] s = "-1.50" -> [err |-> NilErr, f |-> F(-150)]
      [] s = "NaN"   -> [err |-> NilErr, f |-> NaN]
      [] s = "Inf"   -> [err |-> NilErr, f |-> PosInf]
      [] OTHER       -> [err |-> "strconv.ParseFloat: parsing: invalid syntax", f |-> Zero]

\* time.Parse(time.RFC3339, s) on the created_at strings of the model.
ParseRFC3339(s) ==
    CASE s = "2025-07-28T21:22:14+03:00" -> [err |-> NilErr, t |-> 1753726934]
      [] s = "2025-07-28T21:19:53+03:00" -> [err |-> NilErr, t |-> 1753726793]
      [] s = "2025-07-28T21:18:00+03:00" -> [err |-> NilErr, t |-> 1753726680]
      [] OTHER -> [err |-> "parsing time: cannot parse", t |-> 0]

-----------------------------------------------------------------------------
(* sort.Sort(sort.Reverse(sort.Float64Slice(prices))) *)

\* sort.Float64Slice.Less: NaN orders before every other value.
Float64SliceLess(x, i, j) == FLt(x[i], x[j]) \/ (isNaN(x[i]) /\ ~isNaN(x[j]))

\* sort.Reverse: Less(i, j) of the reversed order is Less(j, i).
ReverseLess(x, i, j) == Float64SliceLess(x, j, i)

Swap(x, i, j) == [x EXCEPT ![i] = x[j], ![j] = x[i]]

\* inner loop of insertionSort: for j := i; j > a && Less(j, j-1); j-- { Swap(j, j-1) }
RECURSIVE SinkDown(_, _)
SinkDown(x, j) ==
    IF j > 1 /\ ReverseLess(x, j, j - 1)
    THEN SinkDown(Swap(x, j, j - 1), j - 1)
    ELSE x

\* outer loop of insertionSort: for i := a + 1; i < b; i++
RECURSIVE InsertionSortFrom(_, _)
InsertionSortFrom(x, i) ==
    IF i > Len(x) THEN x ELSE InsertionSortFrom(SinkDown(x, i), i + 1)

\* Mutant of SortReverse: the prices are left in input order.
SortReverse_NoSort(prices) == prices

\* sort.Sort on a slice of at most 12 elements is one insertion sort.
SortReverse(prices) == InsertionSortFrom(prices, 2)

-----------------------------------------------------------------------------
(* internal/service/grinex.go *)

\* Mutant of ParsedPrices: the loop stops at the first price that does not parse
\* (break instead of continue).
RECURSIVE ParsedPrices_StopAtInvalid(_)
ParsedPrices_StopAtInvalid(trades) ==
    IF trades = <<>> THEN <<>>
    ELSE LET p == ParseFloat(Head(trades).Price)
         IN  IF p.err # NilErr THEN <<>>
             ELSE <<p.f>> \o ParsedPrices_StopAtInvalid(Tail(trades))

\* the loop over trades: append every price that parses, skip the others
RECURSIVE ParsedPrices(_)
ParsedPrices(trades) ==
    IF trades = <<>> THEN <<>>
    ELSE LET p == ParseFloat(Head(trades).Price)
         IN  IF p.err # NilErr THEN ParsedPrices(Tail(trades))
             ELSE <<p.f>> \o ParsedPrices(Tail(trades))

\* Mutant of calculatePricesFromTrades: the len(trades) == 0 guard is missing, so
\* an empty list falls through to the no-valid-prices check.
calculatePricesFromTrades_NoEmptyCheck(trades) ==
    LET prices == ParsedPrices(trades)
    IN  IF Len(prices) = 0
        THEN [askPrice |-> Zero, bidPrice |-> Zero, err |-> "no valid prices found in trades"]
        ELSE LET sorted == SortReverse(prices)
                 ask == sorted[1]
                 bid == IF Len(sorted) < 2 THEN ask ELSE sorted[Len(sorted)]
             IN  [askPrice |-> ask, bidPrice |-> bid, err |-> NilErr]

calculatePricesFromTrades(trades) ==
    IF Len(trades) = 0
    THEN [askPrice |-> Zero, bidPrice |-> Zero, err |-> "no trades to calculate prices from"]
    ELSE LET prices == ParsedPrices(trades)
         IN  IF Len(prices) = 0
             THEN [askPrice |-> Zero, bidPrice |-> Zero, err |-> "no valid prices found in trades"]
             ELSE LET sorted == SortReverse(prices)
                      ask == sorted[1]
                      bid == IF Len(sorted) < 2 THEN ask ELSE sorted[Len(sorted)]
                  IN  [askPrice |-> ask, bidPrice |-> bid, err |-> NilErr]

NilRate == [nil |-> TRUE, TradingPair |-> "", AskPrice |-> Zero, BidPrice |-> Zero, Timestamp |-> 0]

\* string(body): the raw text of a response body
RECURSIVE RenderTrades(_)
RenderTrades(trades) ==
    IF trades = <<>> THEN ""
    ELSE "{\"price\":\"" \o Head(trades).Price \o "\",\"created_at\":\""
         \o Head(trades).CreatedAt \o "\"}"
         \o (IF Len(trades) > 1 THEN "," ELSE "") \o RenderTrades(Tail(trades))

BodyText(body) == IF body.json THEN "[" \o RenderTrades(body.trades) \o "]" ELSE body.text

\* json.Unmarshal(body, &trades)
Unmarshal(body) ==
    IF body.json THEN [err |-> NilErr, trades |-> body.trades]
    ELSE IF body.text = "" THEN [err |-> "unexpected end of JSON input", trades |-> <<>>]
    ELSE IF body.text = "invalid json"
    THEN [err |-> "invalid character 'i' looking for beginning of value", trades |-> <<>>]
    ELSE [err |-> "invalid character 'I' looking for beginning of value", trades |-> <<>>]

\* Mutant of LatestTrade: the last trade of the reply instead of the first.
LatestTrade_Last(trades) == trades[Len(trades)]

\* latestTrade := trades[0]
LatestTrade(trades) == trades[1]

\* Mutant of StatusAccepted: the status code of the reply is not looked at.
StatusAccepted_Any(code) == TRUE

\* resp.StatusCode != http.StatusOK is the failure test
StatusAccepted(code) == code = StatusOK

\* the base URLs of the service configuration the model covers; Load accepts
\* any non-empty string
BaseURLs == {"https://grinex.io", "http://[::1"}

\* http.NewRequestWithContext(ctx, http.MethodGet, url, nil): the error of
\* parsing the URL
NewRequestWithContext(url) ==
    IF url \in {"http://[::1/api/v2/trades", "http://[::1/api/v2/markets"}
    THEN "parse \"" \o url \o "\": missing ']' in host"
    ELSE NilErr

\* the error g.client.Do returns for a GET of url that fails with e: the
\* *url.Error wrapping e
ClientDo(url, e) == "Get \"" \o url \o "\": " \o e

\* GetUSDTRate of a service configured with baseURL, with time.Now() = t; u is
\* the upstream's reply to the request, looked at only when the request could
\* be created and was sent
GetUSDTRate(baseURL, u, t) ==
    IF NewRequestWithContext(baseURL \o "/api/v2/trades") # NilErr
    THEN [rate |-> NilRate,
          err |-> "failed to create request: "
                  \o NewRequestWithContext(baseURL \o "/api/v2/trades")]
    ELSE IF u.neterr # NilErr
    THEN [rate |-> NilRate,
          err |-> "failed to make request: "
                  \o ClientDo(baseURL \o "/api/v2/trades?limit=100&market=usdtrub", u.neterr)]
    ELSE IF ~StatusAccepted(u.status)
    THEN [rate |-> NilRate,
          err |-> "API request failed with status " \o ToString(u.status) \o ": "
                  \o BodyText(u.body)]
    ELSE IF u.readerr # NilErr
    THEN [rate |-> NilRate, err |-> "failed to read response body: " \o u.readerr]
    ELSE LET dec == Unmarshal(u.body) IN
    IF dec.err # NilErr
    THEN [rate |-> NilRate, err |-> "failed to unmarshal response: " \o dec.err]
    ELSE IF Len(dec.trades) = 0
    THEN [rate |-> NilRate, err |-> "no trades data available"]
    ELSE LET c == calculatePricesFromTrades(dec.trades) IN
    IF c.err # NilErr
    THEN [rate |-> NilRate, err |-> "failed to calculate prices from trades: " \o c.err]
    ELSE LET latestTrade == LatestTrade(dec.trades)
             ts == ParseRFC3339(latestTrade.CreatedAt)
             timestamp == IF ts.err # NilErr THEN t ELSE ts.t
         IN  [rate |-> [nil |-> FALSE, TradingPair |-> "USDT/RUB", AskPrice |-> c.askPrice,
                        BidPrice |-> c.bidPrice, Timestamp |-> timestamp],
              err |-> NilErr]

-----------------------------------------------------------------------------
(* Upstream replies (inputs) *)

PriceStrings == {"81.25", "81.20", "81.30", "invalid", "NaN", "Inf"}
CreatedAtStrings == {"2025-07-28T21:22:14+03:00", "2025-07-28T21:19:53+03:00", "2025-07-28 21:22:14"}
Trades == [Price : PriceStrings, CreatedAt : CreatedAtStrings]

\* The trade lists an upstream reply carries in the server model, one for each
\* way the fetch ends on a decoded reply: no trade; no price that parses; two
\* prices, ask above bid, timestamp from created_at; a created_at that does not
\* parse, timestamp from the clock; a NaN price.
SrvTradeLists ==
    {<<>>,
     <<[Price |-> "invalid", CreatedAt |-> "2025-07-28T21:22:14+03:00"]>>,
     <<[Price |-> "81.30", CreatedAt |-> "2025-07-28T21:22:14+03:00"],
       [Price |-> "81.25", CreatedAt |-> "2025-07-28T21:22:14+03:00"]>>,
     <<[Price |-> "81.25", CreatedAt |-> "2025-07-28 21:22:14"]>>,
     <<[Price |-> "NaN", CreatedAt |-> "2025-07-28T21:22:14+03:00"],
       [Price |-> "81.25", CreatedAt |-> "2025-07-28T21:22:14+03:00"]>>}

TradeLists(S, n) == UNION {[1..k -> S] : k \in 0..n}

JSONBody(trades) == [json |-> TRUE, text |-> "", trades |-> trades]
TextBody(text) == [json |-> FALSE, text |-> text, trades |-> <<>>]

Bodies(S, n) == {JSONBody(l) : l \in TradeLists(S, n)}
                \cup {TextBody("invalid json"), TextBody("Internal Server Error")}

NetError(e) == [neterr |-> e, status |-> 0, readerr |-> NilErr, body |-> TextBody("")]
Reply(status, body) == [neterr |-> NilErr, status |-> status, readerr |-> NilErr, body |-> body]
\* reading the body fails with e after the text partial was read
ReadError(status, e, partial) ==
    [neterr |-> NilErr, status |-> status, readerr |-> e, body |-> TextBody(partial)]

\* the placeholder of the reply when no request is sent
NoReply == [neterr |-> NilErr, status |-> 0, readerr |-> NilErr, body |-> TextBody("")]

Statuses == {StatusOK, StatusInternalServerError, StatusNoContent}

Upstreams(S, n) ==
    {NetError("context deadline exceeded")}
    \cup {ReadError(st, "unexpected EOF", partial) : st \in Statuses,
                                                      partial \in {"", "Internal Ser"}}
    \cup {Reply(st, b) : st \in Statuses, b \in Bodies(S, n)}

\* The replies the server model draws from: every failure kind once, and the
\* 200 replies with the trade lists of SrvTradeLists.
SrvUpstreams ==
    {NetError("context deadline exceeded"),
     Reply(StatusInternalServerError, TextBody("Internal Server Error")),
     Reply(StatusOK, TextBody("invalid json"))}
    \cup {Reply(StatusOK, JSONBody(l)) : l \in SrvTradeLists}

-----------------------------------------------------------------------------
(* Harness: the extractor and the fetch called directly on one input *)

NotCalculated == [called |-> FALSE, askPrice |-> Zero, bidPrice |-> Zero, err |-> NilErr]
NotFetched == [called |-> FALSE, rate |-> NilRate, err |-> NilErr]

NilRecord == [ID |-> 0, TradingPair |-> "", AskPrice |-> Zero, BidPrice |-> Zero,
              Timestamp |-> 0, CreatedAt |-> 0]
NilHealth == [nil |-> TRUE, Status |-> "", Message |-> ""]

\* What the database has answered to the INSERT of a request (sent) for Scan
\* to read, with committed recording whether the statement took effect in the
\* table: nothing yet.
NoSaveReply == [sent |-> FALSE, committed |-> FALSE, err |-> NilErr, record |-> NilRecord]

\* A request that has not arrived yet.  rate, dbRecord are the handler's locals;
\* resp/hresp/err are what the handler returned; the remaining fields record what
\* the handler did (calls issued and their outcomes).
IdleReq == [pc |-> "idle", kind |-> "", rate |-> NilRate, dbRecord |-> NilRecord,
            saveReply |-> NoSaveReply,
            resp |-> NilRate, hresp |-> NilHealth, err |-> NilErr,
            fetchErr |-> NilErr, saveErr |-> NilErr, saveCalls |-> 0,
            storeProbeErr |-> NilErr, clientProbeErr |-> NilErr, clientProbes |-> 0,
            fetchCalls |-> 0, storeProbes |-> 0]

\* no Database method has been called by the harness yet
\* (saved: the record of the last SaveRate that succeeded; dberr: what the
\* driver reported to the call; isNil: the returned *RateRecord is nil; rows:
\* the returned slice)
NoQuery == [op |-> "", pair |-> "", start |-> 0, end |-> 0, saved |-> NilRecord,
            dberr |-> NilErr,
            isNil |-> TRUE, record |-> NilRecord, rows |-> <<>>, err |-> NilErr]

\* Load has not been called yet
NotLoaded == [loaded |-> FALSE]

\* StartServer after s.Serve was started: serving, no signal received yet.
\* db is the state of the *sql.DB handle ("none" before sql.Open), closeCalls
\* counts db.Close(), listened records that net.Listen succeeded, err is what
\* StartServer returned.
\* baseURL is cfg.Grinex.BaseURL and timeout cfg.Grinex.Timeout (in seconds),
\* which the service was built with.
Serving == [phase |-> "serving", graceElapsed |-> FALSE, cancelled |-> {},
            db |-> "open", closeCalls |-> 0, listened |-> TRUE, err |-> NilErr,
            baseURL |-> "https://grinex.io", timeout |-> 30]

\* StartServer has just been called
Starting == [phase |-> "init", graceElapsed |-> FALSE, cancelled |-> {},
             db |-> "none", closeCalls |-> 0, listened |-> FALSE, err |-> NilErr,
             baseURL |-> "https://grinex.io", timeout |-> 30]

ServerInit ==
    /\ req = [r \in 1..MaxReq |-> IdleReq]
    /\ records = <<>>
    /\ nextID = 1
    /\ now = 1753727000
    /\ dbq = NoQuery
    /\ conf = NotLoaded

\* the service is built with a base URL that parses and the harness supplies
\* the reply, or with one that does not parse, and then no reply is consumed
InitExtract ==
    /\ \/ srv = Serving /\ input \in Upstreams(Trades, MaxTrades)
       \/ srv = [Serving EXCEPT !.baseURL = "http://[::1"] /\ input = NoReply
    /\ calc = NotCalculated
    /\ fetched = NotFetched
    /\ ServerInit

CallCalculate ==
    /\ ~calc.called
    /\ LET c == calculatePricesFromTrades(input.body.trades)
       IN  calc' = [called |-> TRUE, askPrice |-> c.askPrice, bidPrice |-> c.bidPrice,
                    err |-> c.err]
    /\ UNCHANGED <<input, fetched, req, records, nextID, now, srv, dbq, conf>>

CallGetUSDTRate ==
    /\ calc.called
    /\ ~fetched.called
    /\ LET g == GetUSDTRate(srv.baseURL, input, now)
       IN  fetched' = [called |-> TRUE, rate |-> g.rate, err |-> g.err]
    /\ UNCHANGED <<input, calc, req, records, nextID, now, srv, dbq, conf>>

NextExtract == CallCalculate \/ CallGetUSDTRate

SpecExtract == InitExtract /\ [][NextExtract]_vars

-----------------------------------------------------------------------------
(* internal/database/database.go *)

DBErrors == {"pq: connection refused"}
DBOutcomes == {NilErr} \cup DBErrors

\* what rows.Scan can report for a row of a result set: nothing, or the
\* error of database/sql for a created_at that is NULL
ScanOutcomes ==
    {NilErr, "sql: Scan error on column index 5, name \"created_at\": "
             \o "unsupported Scan, storing driver.Value type <nil> into type *time.Time"}

\* how the INSERT of SaveRate can end: it commits and the id is read; it
\* never reaches the database; it commits and the connection is lost before
\* the RETURNING row is read
SaveOutcomes ==
    {[committed |-> TRUE, dberr |-> NilErr],
     [committed |-> FALSE, dberr |-> "pq: connection refused"],
     [committed |-> TRUE,
      dberr |-> "read tcp 127.0.0.1:49152->127.0.0.1:5432: read: connection reset by peer"]}

\* Mutant of SaveRate: an upsert on the trading pair; the new row replaces the
\* rows of the pair instead of being added to them.
SaveRate_Upsert(rows, id, record, committed, dberr) ==
    [err |-> IF dberr # NilErr THEN "failed to save rate: " \o dberr ELSE NilErr,
     rows |-> IF committed THEN <<[record EXCEPT !.ID = id]>> ELSE rows,
     nextID |-> IF committed THEN id + 1 ELSE id,
     record |-> IF dberr # NilErr THEN record ELSE [record EXCEPT !.ID = id]]

\* Mutant of SaveRate: the id sequence does not advance.
SaveRate_NoIdAdvance(rows, id, record, committed, dberr) ==
    [err |-> IF dberr # NilErr THEN "failed to save rate: " \o dberr ELSE NilErr,
     rows |-> IF committed THEN Append(rows, [record EXCEPT !.ID = id]) ELSE rows,
     nextID |-> id,
     record |-> IF dberr # NilErr THEN record ELSE [record EXCEPT !.ID = id]]

\* SaveRate: INSERT ... RETURNING id.  committed says whether the statement
\* took effect in the table (the row gets the next id of the sequence), dberr
\* is what QueryRow(...).Scan reports; without an error record.ID is the
\* generated id, with one the record is as it was passed.
SaveRate(rows, id, record, committed, dberr) ==
    [err |-> IF dberr # NilErr THEN "failed to save rate: " \o dberr ELSE NilErr,
     rows |-> IF committed THEN Append(rows, [record EXCEPT !.ID = id]) ELSE rows,
     nextID |-> IF committed THEN id + 1 ELSE id,
     record |-> IF dberr # NilErr THEN record ELSE [record EXCEPT !.ID = id]]

\* Database.HealthCheck: PingContext under a 5 s timeout; pingerr is its outcome.
DatabaseHealthCheck(pingerr) == pingerr

\* the rows of the table with trading_pair = pair (WHERE trading_pair = $1)
RowsOfPair(rows, pair) == {i \in DOMAIN rows : rows[i].TradingPair = pair}

\* Mutant of QueryLatest: ORDER BY id DESC, the row inserted last.
QueryLatest_ByID(rows, pair) ==
    IF RowsOfPair(rows, pair) = {} THEN {<<>>}
    ELSE {<<rows[i]>> : i \in {k \in RowsOfPair(rows, pair) :
                                  \A j \in RowsOfPair(rows, pair) : rows[k].ID >= rows[j].ID}}

\* SELECT ... WHERE trading_pair = $1 ORDER BY created_at DESC LIMIT 1: the
\* result sets the query can deliver (SQL leaves the order of rows with equal
\* created_at open)
QueryLatest(rows, pair) ==
    IF RowsOfPair(rows, pair) = {} THEN {<<>>}
    ELSE {<<rows[i]>> : i \in {k \in RowsOfPair(rows, pair) :
                                  \A j \in RowsOfPair(rows, pair) :
                                      rows[k].CreatedAt >= rows[j].CreatedAt}}

\* GetLatestRate: res is the result set of the query, dberr the error of the
\* driver; QueryRow(...).Scan on no row gives sql.ErrNoRows
GetLatestRate(tradingPair, res, dberr) ==
    IF dberr # NilErr
    THEN [isNil |-> TRUE, record |-> NilRecord,
          err |-> "failed to get latest rate: " \o dberr]
    ELSE IF res = <<>>
    THEN [isNil |-> TRUE, record |-> NilRecord,
          err |-> "no rate found for trading pair: " \o tradingPair]
    ELSE [isNil |-> FALSE, record |-> res[1], err |-> NilErr]

\* the rows with trading_pair = pair AND created_at BETWEEN start AND end
RowsInRange(rows, pair, start, end) ==
    {i \in RowsOfPair(rows, pair) : start <= rows[i].CreatedAt /\ rows[i].CreatedAt <= end}

\* the sequences that list every row of the index set I once, by created_at descending
OrderedByCreatedAtDesc(rows, I) ==
    {[k \in 1..Cardinality(I) |-> rows[f[k]]] :
        f \in {g \in [1..Cardinality(I) -> I] :
                  /\ \A a, b \in 1..Cardinality(I) : g[a] = g[b] => a = b
                  /\ \A a, b \in 1..Cardinality(I) :
                        a < b => rows[g[a]].CreatedAt >= rows[g[b]].CreatedAt}}

\* Mutant of QueryRange: the upper bound is exclusive (created_at < $3).
QueryRange_ExclusiveEnd(rows, pair, start, end) ==
    OrderedByCreatedAtDesc(rows,
        {i \in RowsInRange(rows, pair, start, end) : rows[i].CreatedAt < end})

\* SELECT ... WHERE trading_pair = $1 AND created_at BETWEEN $2 AND $3
\* ORDER BY created_at DESC: the result sets the query can deliver
QueryRange(rows, pair, start, end) ==
    OrderedByCreatedAtDesc(rows, RowsInRange(rows, pair, start, end))

\* GetRatesByTimeRange: res is the result set, queryerr the error of d.db.Query,
\* scanerr the error of rows.Scan on a row of the result set (no row, no Scan),
\* rowserr the error rows.Err() reports after the loop
GetRatesByTimeRange(res, queryerr, scanerr, rowserr) ==
    IF queryerr # NilErr
    THEN [rows |-> <<>>, err |-> "failed to query rates: " \o queryerr]
    ELSE IF res # <<>> /\ scanerr # NilErr
    THEN [rows |-> <<>>, err |-> "failed to scan rate record: " \o scanerr]
    ELSE IF rowserr # NilErr
    THEN [rows |-> <<>>, err |-> "error iterating over rows: " \o rowserr]
    ELSE [rows |-> res, err |-> NilErr]

-----------------------------------------------------------------------------
(* Harness: the Database methods called directly on a table the harness fills
   through SaveRate *)

StorePairs == {"USDT/RUB", "BTC/USDT"}
StoreInstants == {1753727000, 1753727001, 1753727002}

\* the records the harness saves
StoreRecords ==
    {[ID |-> 0, TradingPair |-> p, AskPrice |-> F(8130), BidPrice |-> F(8125),
      Timestamp |-> 1753726934, CreatedAt |-> c] : p \in StorePairs, c \in StoreInstants}

\* the harness fills the table, then calls one query method
Filling == dbq.op \in {"", "SaveRate"}

StoreSaveRate ==
    /\ Filling
    /\ Len(records) < MaxRows
    /\ \E record \in StoreRecords, o \in SaveOutcomes :
          LET sv == SaveRate(records, nextID, record, o.committed, o.dberr)
          IN  /\ records' = sv.rows
              /\ nextID' = sv.nextID
              /\ dbq' = [NoQuery EXCEPT !.op = "SaveRate", !.pair = record.TradingPair,
                                        !.saved = IF sv.err = NilErr THEN sv.record
                                                  ELSE dbq.saved,
                                        !.dberr = o.dberr, !.err = sv.err]
    /\ UNCHANGED <<input, calc, fetched, req, now, srv, conf>>

StoreGetLatestRate ==
    /\ Filling
    /\ \E pair \in StorePairs, dberr \in DBOutcomes :
        \E res \in QueryLatest(records, pair) :
          LET g == GetLatestRate(pair, res, dberr)
          IN  dbq' = [NoQuery EXCEPT !.op = "GetLatestRate", !.pair = pair,
                                     !.saved = dbq.saved, !.dberr = dberr,
                                     !.isNil = g.isNil,
                                     !.record = g.record, !.err = g.err]
    /\ UNCHANGED <<input, calc, fetched, req, records, nextID, now, srv, conf>>

StoreGetRatesByTimeRange ==
    /\ Filling
    /\ \E pair \in StorePairs, start \in StoreInstants, end \in StoreInstants,
          queryerr \in DBOutcomes, scanerr \in ScanOutcomes, rowserr \in DBOutcomes :
        \E res \in QueryRange(records, pair, start, end) :
          LET g == GetRatesByTimeRange(res, queryerr, scanerr, rowserr)
          IN  dbq' = [NoQuery EXCEPT !.op = "GetRatesByTimeRange", !.pair = pair,
                                     !.start = start, !.end = end,
                                     !.saved = dbq.saved,
                                     !.dberr = IF queryerr # NilErr THEN queryerr
                                               ELSE IF res # <<>> /\ scanerr # NilErr
                                               THEN scanerr
                                               ELSE rowserr,
                                     !.rows = g.rows, !.err = g.err]
    /\ UNCHANGED <<input, calc, fetched, req, records, nextID, now, srv, conf>>

NextStore == StoreSaveRate \/ StoreGetLatestRate \/ StoreGetRatesByTimeRange

\* the table is empty after the migration, no method has been called
InitStore ==
    /\ input = NetError("context deadline exceeded")
    /\ calc = NotCalculated
    /\ fetched = NotFetched
    /\ srv = Serving
    /\ ServerInit

SpecStore == InitStore /\ [][NextStore]_vars

-----------------------------------------------------------------------------
(* internal/config/config.go.  The environment maps each variable to its
   value, "" when unset; the command line maps each flag to its value, the
   flag's default ("" or 0) when not given.  Durations are seconds. *)

EnvKeys == {"SERVER_PORT", "DB_HOST", "DB_PORT", "DB_USER", "DB_PASSWORD", "DB_NAME",
            "DB_SSLMODE", "GRINEX_BASE_URL", "GRINEX_TIMEOUT", "GRINEX_USER_AGENT",
            "LOG_LEVEL"}

FlagNames == {"port", "db-host", "db-port", "db-user", "db-password", "db-name",
              "db-sslmode", "grinex-base-url", "grinex-timeout", "log-level"}

\* strconv.Atoi on the strings of the harness
Atoi(s) ==
    CASE s = "5433" -> [n |-> 5433, err |-> NilErr]
      [] OTHER -> [n |-> 0, err |-> "strconv.Atoi: parsing \"" \o s \o "\": invalid syntax"]

\* time.ParseDuration on the strings of the harness
ParseDuration(s) ==
    CASE s = "60s" -> [d |-> 60, err |-> NilErr]
      [] OTHER -> [d |-> 0, err |-> "time: invalid duration \"" \o s \o "\""]

getString(env, key, defaultValue) ==
    IF env[key] # "" THEN env[key] ELSE defaultValue

getInt(env, key, defaultValue) ==
    IF env[key] # "" /\ Atoi(env[key]).err = NilErr THEN Atoi(env[key]).n
    ELSE defaultValue

getDuration(env, key, defaultValue) ==
    IF env[key] # "" /\ ParseDuration(env[key]).err = NilErr THEN ParseDuration(env[key]).d
    ELSE defaultValue

\* setDefaults: the defaults registered with viper
setDefaults ==
    [k \in {"server.port", "database.host", "database.port", "database.user",
            "database.password", "database.dbname", "database.sslmode", "grinex.base_url",
            "grinex.timeout", "grinex.user_agent", "logging.level"} |->
        CASE k = "server.port" -> "8080"
          [] k = "database.host" -> "localhost"
          [] k = "database.port" -> 5432
          [] k = "database.user" -> "postgres"
          [] k = "database.password" -> "password"
          [] k = "database.dbname" -> "grinex_rates"
          [] k = "database.sslmode" -> "disable"
          [] k = "grinex.base_url" -> "https://grinex.io"
          [] k = "grinex.timeout" -> "30s"
          [] k = "grinex.user_agent" -> "GrinexRateService/1.0"
          [] k = "logging.level" -> "info"]

\* the viper key a flag is stored under
ViperKeyOfFlag(f) ==
    CASE f = "port" -> "server.port"
      [] f = "db-host" -> "database.host"
      [] f = "db-port" -> "database.port"
      [] f = "db-user" -> "database.user"
      [] f = "db-password" -> "database.password"
      [] f = "db-name" -> "database.dbname"
      [] f = "db-sslmode" -> "database.sslmode"
      [] f = "grinex-base-url" -> "grinex.base_url"
      [] f = "grinex-timeout" -> "grinex.timeout"
      [] f = "log-level" -> "logging.level"

\* a flag was given a value other than its default
FlagGiven(args, f) == IF f = "db-port" THEN args[f] # 0 ELSE args[f] # ""

\* loadFromFlags: viper.Set for every flag that was given
loadFromFlags(viper, args) ==
    [k \in DOMAIN viper |->
        IF \E f \in FlagNames : ViperKeyOfFlag(f) = k /\ FlagGiven(args, f)
        THEN args[CHOOSE f \in FlagNames : ViperKeyOfFlag(f) = k]
        ELSE viper[k]]

\* Load: setDefaults, loadFromEnv and loadFromFlags fill viper; the Config is
\* then built from os.Getenv alone
Load(env, args) ==
    [viper |-> loadFromFlags(setDefaults, args),
     cfg |-> [Server |-> [Port |-> getString(env, "SERVER_PORT", "8080")],
              Database |-> [Host |-> getString(env, "DB_HOST", "localhost"),
                            Port |-> getInt(env, "DB_PORT", 5460),
                            User |-> getString(env, "DB_USER", "db_admin"),
                            Password |-> getString(env, "DB_PASSWORD", "3Qv@e8U0ImT"),
                            DBName |-> getString(env, "DB_NAME", "grinex_rates"),
                            SSLMode |-> getString(env, "DB_SSLMODE", "disable")],
              Grinex |-> [BaseURL |-> getString(env, "GRINEX_BASE_URL", "https://grinex.io"),
                          Timeout |-> getDuration(env, "GRINEX_TIMEOUT", 30),
                          UserAgent |-> getString(env, "GRINEX_USER_AGENT",
                                                  "GrinexRateService/1.0")],
              Logging |-> [Level |-> getString(env, "LOG_LEVEL", "info")]]]

-----------------------------------------------------------------------------
(* Harness: Load called once on an environment and a command line *)

\* the value the harness gives to an environment variable; bad selects a
\* value that does not parse for the two variables that are parsed
EnvValue(k, bad) ==
    CASE k = "SERVER_PORT" -> "9090"
      [] k = "DB_HOST" -> "test-host"
      [] k = "DB_PORT" -> IF bad THEN "abc" ELSE "5433"
      [] k = "DB_USER" -> "test-user"
      [] k = "DB_PASSWORD" -> "test-password"
      [] k = "DB_NAME" -> "test-db"
      [] k = "DB_SSLMODE" -> "require"
      [] k = "GRINEX_BASE_URL" -> "https://test-grinex.io"
      [] k = "GRINEX_TIMEOUT" -> IF bad THEN "abc" ELSE "60s"
      [] k = "GRINEX_USER_AGENT" -> "TestAgent/1.0"
      [] k = "LOG_LEVEL" -> "debug"

\* the value the harness gives to a flag
FlagValue(f) ==
    CASE f = "port" -> "7070"
      [] f = "db-host" -> "flag-host"
      [] f = "db-port" -> 6543
      [] f = "db-user" -> "flag-user"
      [] f = "db-password" -> "flag-password"
      [] f = "db-name" -> "flag-db"
      [] f = "db-sslmode" -> "verify-full"
      [] f = "grinex-base-url" -> "https://flag-grinex.io"
      [] f = "grinex-timeout" -> "60s"
      [] f = "log-level" -> "warn"

Environments ==
    {[k \in EnvKeys |-> IF k \in K THEN EnvValue(k, bad) ELSE ""] :
        K \in {X \in SUBSET EnvKeys : Cardinality(X) <= MaxOptionsSet}, bad \in BOOLEAN}

CommandLines ==
    {[f \in FlagNames |-> IF f \in K THEN FlagValue(f)
                          ELSE IF f = "db-port" THEN 0 ELSE ""] :
        K \in {X \in SUBSET FlagNames : Cardinality(X) <= MaxOptionsSet}}

InitConfig ==
    /\ input = NetError("context deadline exceeded")
    /\ calc = NotCalculated
    /\ fetched = NotFetched
    /\ req = [r \in 1..MaxReq |-> IdleReq]
    /\ records = <<>>
    /\ nextID = 1
    /\ now = 1753727000
    /\ srv = Serving
    /\ dbq = NoQuery
    /\ \E env \in Environments, args \in CommandLines :
          conf = [loaded |-> FALSE, env |-> env, args |-> args]

CallLoad ==
    /\ ~conf.loaded
    /\ LET l == Load(conf.env, conf.args)
       IN  conf' = [loaded |-> TRUE, env |-> conf.env, args |-> conf.args,
                    viper |-> l.viper, cfg |-> l.cfg]
    /\ UNCHANGED <<input, calc, fetched, req, records, nextID, now, srv, dbq>>

NextConfig == CallLoad

SpecConfig == InitConfig /\ [][NextConfig]_vars

-----------------------------------------------------------------------------
(* GrinexService.HealthCheck: GET /api/v2/markets, body not read *)

MarketsReplies == {[neterr |-> "context deadline exceeded", status |-> 0],
                   [neterr |-> NilErr, status |-> StatusOK],
                   [neterr |-> NilErr, status |-> StatusInternalServerError]}

\* HealthCheck of a service configured with baseURL; m is the upstream's reply,
\* looked at only when the request could be created and was sent
GrinexHealthCheck(baseURL, m) ==
    IF NewRequestWithContext(baseURL \o "/api/v2/markets") # NilErr
    THEN "failed to create health check request: "
         \o NewRequestWithContext(baseURL \o "/api/v2/markets")
    ELSE IF m.neterr # NilErr
    THEN "health check request failed: " \o ClientDo(baseURL \o "/api/v2/markets", m.neterr)
    ELSE IF m.status # StatusOK
    THEN "health check failed with status " \o ToString(m.status)
    ELSE NilErr

-----------------------------------------------------------------------------
(* server/server.go: the two handlers, split where they block on a dependency *)

\* Mutant of GetRates_OnFetch: the record is built without CreatedAt (the zero
\* time), leaving it to the store.
GetRates_OnFetch_NoCreatedAt(q, g, t) ==
    IF g.err # NilErr
    THEN [q EXCEPT !.pc = "done", !.kind = "GetRates", !.fetchCalls = @ + 1,
                   !.fetchErr = g.err,
                   !.resp = NilRate,
                   !.err = "failed to get rate from Grinex: " \o g.err]
    ELSE [q EXCEPT !.pc = "fetched", !.kind = "GetRates", !.fetchCalls = @ + 1,
                   !.rate = g.rate,
                   !.dbRecord = [ID |-> 0, TradingPair |-> g.rate.TradingPair,
                                 AskPrice |-> g.rate.AskPrice,
                                 BidPrice |-> g.rate.BidPrice,
                                 Timestamp |-> g.rate.Timestamp, CreatedAt |-> 0]]

\* Mutant of GetRates_OnFetch: a fetch error is logged but not returned; the
\* handler answers with an empty reply and a nil error.
GetRates_OnFetch_SwallowError(q, g, t) ==
    IF g.err # NilErr
    THEN [q EXCEPT !.pc = "done", !.kind = "GetRates", !.fetchCalls = @ + 1,
                   !.fetchErr = g.err,
                   !.resp = NilRate, !.err = NilErr]
    ELSE [q EXCEPT !.pc = "fetched", !.kind = "GetRates", !.fetchCalls = @ + 1,
                   !.rate = g.rate,
                   !.dbRecord = [ID |-> 0, TradingPair |-> g.rate.TradingPair,
                                 AskPrice |-> g.rate.AskPrice,
                                 BidPrice |-> g.rate.BidPrice,
                                 Timestamp |-> g.rate.Timestamp, CreatedAt |-> t]]

\* GetRates, lines 63-75: g is what GetUSDTRate returned, t is time.Now()
GetRates_OnFetch(q, g, t) ==
    IF g.err # NilErr
    THEN [q EXCEPT !.pc = "done", !.kind = "GetRates", !.fetchCalls = @ + 1,
                   !.fetchErr = g.err,
                   !.resp = NilRate,
                   !.err = "failed to get rate from Grinex: " \o g.err]
    ELSE [q EXCEPT !.pc = "fetched", !.kind = "GetRates", !.fetchCalls = @ + 1,
                   !.rate = g.rate,
                   !.dbRecord = [ID |-> 0, TradingPair |-> g.rate.TradingPair,
                                 AskPrice |-> g.rate.AskPrice,
                                 BidPrice |-> g.rate.BidPrice,
                                 Timestamp |-> g.rate.Timestamp, CreatedAt |-> t]]

\* Mutant of GetRates_OnSave: best-effort persistence; a SaveRate error is
\* logged and the quote is returned all the same.
GetRates_OnSave_BestEffort(q, sv) ==
    [q EXCEPT !.pc = "done", !.saveErr = sv.err, !.saveCalls = @ + 1,
              !.dbRecord = sv.record,
              !.resp = [nil |-> FALSE, TradingPair |-> q.rate.TradingPair,
                        AskPrice |-> q.rate.AskPrice, BidPrice |-> q.rate.BidPrice,
                        Timestamp |-> q.rate.Timestamp],
              !.err = NilErr]

\* Mutant of GetRates_OnSave: a failed write is attempted once more before the
\* error is returned.
GetRates_OnSave_Retry(q, sv) ==
    IF sv.err # NilErr /\ q.saveCalls = 0
    THEN [q EXCEPT !.saveCalls = @ + 1]
    ELSE IF sv.err # NilErr
    THEN [q EXCEPT !.pc = "done", !.saveErr = sv.err, !.saveCalls = @ + 1,
                   !.resp = NilRate,
                   !.err = "failed to save rate to database: " \o sv.err]
    ELSE [q EXCEPT !.pc = "done", !.saveCalls = @ + 1, !.dbRecord = sv.record,
                   !.resp = [nil |-> FALSE, TradingPair |-> q.rate.TradingPair,
                             AskPrice |-> q.rate.AskPrice, BidPrice |-> q.rate.BidPrice,
                             Timestamp |-> q.rate.Timestamp],
                   !.err = NilErr]

\* GetRates, lines 77-88: sv is what SaveRate returned
GetRates_OnSave(q, sv) ==
    IF sv.err # NilErr
    THEN [q EXCEPT !.pc = "done", !.saveErr = sv.err, !.saveCalls = @ + 1,
                   !.resp = NilRate,
                   !.err = "failed to save rate to database: " \o sv.err]
    ELSE [q EXCEPT !.pc = "done", !.saveCalls = @ + 1, !.dbRecord = sv.record,
                   !.resp = [nil |-> FALSE, TradingPair |-> q.rate.TradingPair,
                             AskPrice |-> q.rate.AskPrice, BidPrice |-> q.rate.BidPrice,
                             Timestamp |-> q.rate.Timestamp],
                   !.err = NilErr]

\* Mutant of Healthcheck_OnStore: a failed store probe sets the unhealthy payload
\* but the call itself succeeds.
Healthcheck_OnStore_NoCallError(q, e) ==
    IF e # NilErr
    THEN [q EXCEPT !.pc = "done", !.kind = "Healthcheck", !.storeProbes = @ + 1,
                   !.storeProbeErr = e,
                   !.hresp = [nil |-> FALSE, Status |-> "unhealthy",
                              Message |-> "Database health check failed: " \o e],
                   !.err = NilErr]
    ELSE [q EXCEPT !.pc = "probed", !.kind = "Healthcheck", !.storeProbes = @ + 1]

\* Mutant of Healthcheck_OnStore: no short-circuit; after a failed store probe
\* the handler goes on to probe the client.
Healthcheck_OnStore_NoShortCircuit(q, e) ==
    IF e # NilErr
    THEN [q EXCEPT !.pc = "probed", !.kind = "Healthcheck", !.storeProbes = @ + 1,
                   !.storeProbeErr = e]
    ELSE [q EXCEPT !.pc = "probed", !.kind = "Healthcheck", !.storeProbes = @ + 1]

\* Healthcheck, lines 97-109: e is what Database.HealthCheck returned
Healthcheck_OnStore(q, e) ==
    IF e # NilErr
    THEN [q EXCEPT !.pc = "done", !.kind = "Healthcheck", !.storeProbes = @ + 1,
                   !.storeProbeErr = e,
                   !.hresp = [nil |-> FALSE, Status |-> "unhealthy",
                              Message |-> "Database health check failed: " \o e],
                   !.err = "database health check failed: " \o e]
    ELSE [q EXCEPT !.pc = "probed", !.kind = "Healthcheck", !.storeProbes = @ + 1]

\* Mutant of Healthcheck_OnClient: a failed client probe also fails the call.
Healthcheck_OnClient_FailsCall(q, e) ==
    IF e # NilErr
    THEN [q EXCEPT !.pc = "done", !.clientProbeErr = e, !.clientProbes = @ + 1,
                   !.hresp = [nil |-> FALSE, Status |-> "degraded",
                              Message |-> "Grinex API health check failed: " \o e],
                   !.err = "grinex health check failed: " \o e]
    ELSE [q EXCEPT !.pc = "done", !.clientProbes = @ + 1,
                   !.hresp = [nil |-> FALSE, Status |-> "healthy",
                              Message |-> "Service is healthy"],
                   !.err = NilErr]

\* Mutant of Healthcheck_OnClient: a failed client probe changes the message but
\* the status stays "healthy".
Healthcheck_OnClient_StatusNotDowngraded(q, e) ==
    IF e # NilErr
    THEN [q EXCEPT !.pc = "done", !.clientProbeErr = e, !.clientProbes = @ + 1,
                   !.hresp = [nil |-> FALSE, Status |-> "healthy",
                              Message |-> "Grinex API health check failed: " \o e],
                   !.err = NilErr]
    ELSE [q EXCEPT !.pc = "done", !.clientProbes = @ + 1,
                   !.hresp = [nil |-> FALSE, Status |-> "healthy",
                              Message |-> "Service is healthy"],
                   !.err = NilErr]

\* Mutant of Healthcheck_OnClient: hysteresis; once a health request has
\* answered "degraded" the later ones repeat that answer whatever they observe.
Healthcheck_OnClient_Sticky(q, e) ==
    IF \E o \in DOMAIN req : req[o].pc = "done" /\ req[o].hresp.Status = "degraded"
    THEN [q EXCEPT !.pc = "done", !.clientProbeErr = e, !.clientProbes = @ + 1,
                   !.hresp = req[CHOOSE o \in DOMAIN req :
                                    req[o].pc = "done" /\ req[o].hresp.Status = "degraded"].hresp,
                   !.err = NilErr]
    ELSE IF e # NilErr
    THEN [q EXCEPT !.pc = "done", !.clientProbeErr = e, !.clientProbes = @ + 1,
                   !.hresp = [nil |-> FALSE, Status |-> "degraded",
                              Message |-> "Grinex API health check failed: " \o e],
                   !.err = NilErr]
    ELSE [q EXCEPT !.pc = "done", !.clientProbes = @ + 1,
                   !.hresp = [nil |-> FALSE, Status |-> "healthy",
                              Message |-> "Service is healthy"],
                   !.err = NilErr]

\* Healthcheck, lines 111-121: e is what GrinexService.HealthCheck returned
Healthcheck_OnClient(q, e) ==
    IF e # NilErr
    THEN [q EXCEPT !.pc = "done", !.clientProbeErr = e, !.clientProbes = @ + 1,
                   !.hresp = [nil |-> FALSE, Status |-> "degraded",
                              Message |-> "Grinex API health check failed: " \o e],
                   !.err = NilErr]
    ELSE [q EXCEPT !.pc = "done", !.clientProbes = @ + 1,
                   !.hresp = [nil |-> FALSE, Status |-> "healthy",
                              Message |-> "Service is healthy"],
                   !.err = NilErr]

Harness == <<input, calc, fetched, dbq, conf>>

ClockRange == 1753727000 .. (1753727000 + MaxTicks)

\* What GetUSDTRate can return to a handler that calls it at time t: for each
\* base URL its value on every reply of SrvUpstreams.
SrvFetchResults ==
    [b \in BaseURLs |-> [t \in ClockRange |-> {GetUSDTRate(b, u, t) : u \in SrvUpstreams}]]

\* Requests are numbered in the order in which they arrive.
Arrives(r) == req[r].pc = "idle" /\ (r > 1 => req[r - 1].pc # "idle")

GetRatesFetch(r) ==
    /\ Arrives(r)
    /\ \E g \in SrvFetchResults[srv.baseURL][now] :
          req' = [req EXCEPT ![r] = GetRates_OnFetch(req[r], g, now)]
    /\ UNCHANGED <<records, nextID, now, Harness, srv>>

\* SaveRate of request r, blocked in QueryRow(...).Scan: the database and the
\* driver deal with the INSERT; the handler keeps waiting for the answer
GetRatesInsert(r) ==
    /\ req[r].pc = "fetched"
    /\ ~req[r].saveReply.sent
    /\ \E o \in SaveOutcomes :
          LET sv == SaveRate(records, nextID, req[r].dbRecord, o.committed, o.dberr)
          IN  /\ req' = [req EXCEPT ![r].saveReply =
                            [sent |-> TRUE, committed |-> o.committed,
                             err |-> sv.err, record |-> sv.record]]
              /\ records' = sv.rows
              /\ nextID' = sv.nextID
    /\ UNCHANGED <<now, Harness, srv>>

\* Scan returns with the answer, SaveRate returns and GetRates finishes
GetRatesSave(r) ==
    /\ req[r].pc = "fetched"
    /\ req[r].saveReply.sent
    /\ req' = [req EXCEPT ![r] = GetRates_OnSave(req[r], req[r].saveReply)]
    /\ UNCHANGED <<records, nextID, now, Harness, srv>>

HealthcheckStore(r) ==
    /\ Arrives(r)
    /\ \E pingerr \in DBOutcomes :
          req' = [req EXCEPT ![r] = Healthcheck_OnStore(req[r], DatabaseHealthCheck(pingerr))]
    /\ UNCHANGED <<records, nextID, now, Harness, srv>>

HealthcheckClient(r) ==
    /\ req[r].pc = "probed"
    /\ \E m \in MarketsReplies :
          req' = [req EXCEPT ![r] = Healthcheck_OnClient(req[r], GrinexHealthCheck(srv.baseURL, m))]
    /\ UNCHANGED <<records, nextID, now, Harness, srv>>

Tick ==
    /\ now < 1753727000 + MaxTicks
    /\ now' = now + 1
    /\ UNCHANGED <<req, records, nextID, Harness, srv>>

Init ==
    /\ input = NetError("context deadline exceeded")
    /\ calc = NotCalculated
    /\ fetched = NotFetched
    /\ srv \in {[Serving EXCEPT !.baseURL = b] : b \in BaseURLs}
    /\ ServerInit

Next ==
    \/ \E r \in 1..MaxReq : GetRatesFetch(r)
    \/ \E r \in 1..MaxReq : GetRatesInsert(r)
    \/ \E r \in 1..MaxReq : GetRatesSave(r)
    \/ \E r \in 1..MaxReq : HealthcheckStore(r)
    \/ \E r \in 1..MaxReq : HealthcheckClient(r)
    \/ Tick

Spec == Init /\ [][Next]_vars

-----------------------------------------------------------------------------
(* Life cycle: dependencies that answer late or never, cancellation of a
   request context, and the shutdown sequence of StartServer and main.
   A handler is split where it blocks: "fetching" is GetRates inside
   client.Do, "fetched" is GetRates inside SaveRate's QueryRow (saveReply.sent
   once the database has dealt with the INSERT), "pinging" is
   Healthcheck inside PingContext, "probed" is Healthcheck inside client.Do. *)

\* the values of GRINEX_TIMEOUT the life cycle is followed for, in seconds:
\* the default, and none
ClientTimeouts == {30, 0}

\* what the upstream can answer while a request waits in client.Do
LifeUpstreams ==
    {Reply(StatusOK, JSONBody(<<[Price |-> "81.25", CreatedAt |-> "2025-07-28T21:22:14+03:00"]>>)),
     Reply(StatusInternalServerError, TextBody("Internal Server Error"))}

\* the error of a call whose context deadline passed (the 5 s context of
\* Database.HealthCheck) and of a call whose context was cancelled
DeadlineExceeded == "context deadline exceeded"
\* the error of a request given up by http.Client.Timeout before the response
\* headers arrived
ClientTimeoutExceeded ==
    "context deadline exceeded (Client.Timeout exceeded while awaiting headers)"
Canceled == "context canceled"

InFlight(r) == req[r].pc \in {"fetching", "fetched", "pinging", "probed"}

\* grpc dispatches a GetRates call to the handler, which enters GetUSDTRate's
\* client.Do; no call is accepted once GracefulStop has begun
LAcceptGetRates(r) ==
    /\ srv.phase = "serving"
    /\ Arrives(r)
    /\ req' = [req EXCEPT ![r] = [@ EXCEPT !.pc = "fetching", !.kind = "GetRates"]]
    /\ UNCHANGED <<records, nextID, now, Harness, srv>>

\* grpc dispatches a Healthcheck call, which enters Database.HealthCheck
LAcceptHealthcheck(r) ==
    /\ srv.phase = "serving"
    /\ Arrives(r)
    /\ req' = [req EXCEPT ![r] = [@ EXCEPT !.pc = "pinging", !.kind = "Healthcheck"]]
    /\ UNCHANGED <<records, nextID, now, Harness, srv>>

\* the upstream answers the trades request
LFetchReply(r) ==
    /\ req[r].pc = "fetching"
    /\ \E u \in LifeUpstreams :
          req' = [req EXCEPT ![r] = GetRates_OnFetch(req[r], GetUSDTRate(srv.baseURL, u, now), now)]
    /\ UNCHANGED <<records, nextID, now, Harness, srv>>

\* http.Client{Timeout: config.Timeout}: the trades request is given up; a
\* Timeout of zero means no timeout
LFetchTimeout(r) ==
    /\ req[r].pc = "fetching"
    /\ srv.timeout > 0
    /\ req' = [req EXCEPT ![r] =
                  GetRates_OnFetch(req[r], GetUSDTRate(srv.baseURL, NetError(ClientTimeoutExceeded), now), now)]
    /\ UNCHANGED <<records, nextID, now, Harness, srv>>

\* http.NewRequestWithContext(ctx, ...): the trades request of a cancelled
\* request context is aborted
LFetchCancelled(r) ==
    /\ req[r].pc = "fetching"
    /\ r \in srv.cancelled
    /\ req' = [req EXCEPT ![r] =
                  GetRates_OnFetch(req[r], GetUSDTRate(srv.baseURL, NetError(Canceled), now), now)]
    /\ UNCHANGED <<records, nextID, now, Harness, srv>>

\* the database and the driver deal with the INSERT of request r while its
\* handler waits in QueryRow(...).Scan
LInsert(r) ==
    /\ req[r].pc = "fetched"
    /\ ~req[r].saveReply.sent
    /\ \E o \in SaveOutcomes :
          LET sv == SaveRate(records, nextID, req[r].dbRecord, o.committed, o.dberr)
          IN  /\ req' = [req EXCEPT ![r].saveReply =
                            [sent |-> TRUE, committed |-> o.committed,
                             err |-> sv.err, record |-> sv.record]]
              /\ records' = sv.rows
              /\ nextID' = sv.nextID
    /\ UNCHANGED <<now, Harness, srv>>

\* the answer to the INSERT reaches the handler.  SaveRate calls
\* d.db.QueryRow(query, ...): it is given neither the request context nor a
\* deadline, so this is the only step that takes a request out of "fetched".
LSaveReply(r) ==
    /\ req[r].pc = "fetched"
    /\ req[r].saveReply.sent
    /\ req' = [req EXCEPT ![r] = GetRates_OnSave(req[r], req[r].saveReply)]
    /\ UNCHANGED <<records, nextID, now, Harness, srv>>

\* the database answers the ping
LPingReply(r) ==
    /\ req[r].pc = "pinging"
    /\ \E pingerr \in DBOutcomes :
          req' = [req EXCEPT ![r] = Healthcheck_OnStore(req[r], DatabaseHealthCheck(pingerr))]
    /\ UNCHANGED <<records, nextID, now, Harness, srv>>

\* Database.HealthCheck: context.WithTimeout(context.Background(), 5 s) expires
LPingTimeout(r) ==
    /\ req[r].pc = "pinging"
    /\ req' = [req EXCEPT ![r] =
                  Healthcheck_OnStore(req[r], DatabaseHealthCheck(DeadlineExceeded))]
    /\ UNCHANGED <<records, nextID, now, Harness, srv>>

\* the upstream answers the markets request
LProbeReply(r) ==
    /\ req[r].pc = "probed"
    /\ \E st \in {StatusOK, StatusInternalServerError} :
          req' = [req EXCEPT ![r] = Healthcheck_OnClient(req[r],
                      GrinexHealthCheck(srv.baseURL, [neterr |-> NilErr, status |-> st]))]
    /\ UNCHANGED <<records, nextID, now, Harness, srv>>

\* http.Client.Timeout: the markets request is given up
LProbeTimeout(r) ==
    /\ req[r].pc = "probed"
    /\ srv.timeout > 0
    /\ req' = [req EXCEPT ![r] = Healthcheck_OnClient(req[r],
                  GrinexHealthCheck(srv.baseURL, [neterr |-> ClientTimeoutExceeded, status |-> 0]))]
    /\ UNCHANGED <<records, nextID, now, Harness, srv>>

\* the markets request of a cancelled request context is aborted
LProbeCancelled(r) ==
    /\ req[r].pc = "probed"
    /\ r \in srv.cancelled
    /\ req' = [req EXCEPT ![r] = Healthcheck_OnClient(req[r],
                  GrinexHealthCheck(srv.baseURL, [neterr |-> Canceled, status |-> 0]))]
    /\ UNCHANGED <<records, nextID, now, Harness, srv>>

\* the caller of request r goes away: grpc cancels the context of the handler,
\* which keeps running
LCancel(r) ==
    /\ InFlight(r)
    /\ r \notin srv.cancelled
    /\ srv' = [srv EXCEPT !.cancelled = @ \cup {r}]
    /\ UNCHANGED <<req, records, nextID, now, Harness>>

\* main: SIGINT/SIGTERM arrives, the signal goroutine calls cancel();
\* StartServer passes <-ctx.Done(), starts the 30 s shutdownCtx and enters
\* s.GracefulStop(), which closes the listener
LSignal ==
    /\ srv.phase = "serving"
    /\ srv' = [srv EXCEPT !.phase = "stopping"]
    /\ UNCHANGED <<req, records, nextID, now, Harness>>

\* the 30 s of shutdownCtx, started before GracefulStop, run out
LGraceTimer ==
    /\ srv.phase \in {"stopping", "drained"}
    /\ ~srv.graceElapsed
    /\ srv' = [srv EXCEPT !.graceElapsed = TRUE]
    /\ UNCHANGED <<req, records, nextID, now, Harness>>

\* s.GracefulStop() returns: it blocks until every pending RPC has finished
LGracefulStopReturns ==
    /\ srv.phase = "stopping"
    /\ \A r \in 1..MaxReq : ~InFlight(r)
    /\ srv' = [srv EXCEPT !.phase = "drained"]
    /\ UNCHANGED <<req, records, nextID, now, Harness>>

\* StartServer passes <-shutdownCtx.Done() and returns nil; the deferred
\* server.Close() closes the handle; main exits
LStartServerReturns ==
    /\ srv.phase = "drained"
    /\ srv.graceElapsed
    /\ srv' = [srv EXCEPT !.phase = "returned", !.db = "closed", !.closeCalls = @ + 1]
    /\ UNCHANGED <<req, records, nextID, now, Harness>>

\* NewRateServiceServer calls database.NewDatabase: sql.Open, then db.Ping().
\* On either error NewDatabase returns without closing what sql.Open returned,
\* and StartServer returns "failed to create server: ...".
LNewDatabase ==
    /\ srv.phase = "init"
    /\ \E openerr \in DBOutcomes, pingerr \in DBOutcomes :
          srv' = IF openerr # NilErr
                 THEN [srv EXCEPT !.phase = "returned",
                          !.err = "failed to create server: failed to initialize database: "
                                  \o "failed to open database: " \o openerr]
                 ELSE IF pingerr # NilErr
                 THEN [srv EXCEPT !.phase = "returned", !.db = "open",
                          !.err = "failed to create server: failed to initialize database: "
                                  \o "failed to ping database: " \o pingerr]
                 ELSE [srv EXCEPT !.phase = "dbready", !.db = "open"]
    /\ UNCHANGED <<req, records, nextID, now, Harness>>

\* NewRateServiceServer calls database.RunMigrations; on its error it returns
\* without closing db, and StartServer returns "failed to create server: ..."
LRunMigrations ==
    /\ srv.phase = "dbready"
    /\ \E migerr \in DBOutcomes :
          srv' = IF migerr # NilErr
                 THEN [srv EXCEPT !.phase = "returned",
                          !.err = "failed to create server: failed to run database migrations: "
                                  \o migerr]
                 ELSE [srv EXCEPT !.phase = "created"]
    /\ UNCHANGED <<req, records, nextID, now, Harness>>

ListenErrors == {"listen tcp :8080: bind: address already in use"}

\* StartServer: defer server.Close(); net.Listen; on its error StartServer
\* returns and the deferred Close runs; otherwise s.Serve(lis) is started
LListen ==
    /\ srv.phase = "created"
    /\ \E lerr \in {NilErr} \cup ListenErrors :
          srv' = IF lerr # NilErr
                 THEN [srv EXCEPT !.phase = "returned", !.db = "closed",
                                  !.closeCalls = @ + 1,
                                  !.err = "failed to listen: " \o lerr]
                 ELSE [srv EXCEPT !.phase = "serving", !.listened = TRUE]
    /\ UNCHANGED <<req, records, nextID, now, Harness>>

LifeNext ==
    \/ \E r \in 1..MaxReq : LAcceptGetRates(r)
    \/ \E r \in 1..MaxReq : LAcceptHealthcheck(r)
    \/ \E r \in 1..MaxReq : LFetchReply(r)
    \/ \E r \in 1..MaxReq : LFetchTimeout(r)
    \/ \E r \in 1..MaxReq : LFetchCancelled(r)
    \/ \E r \in 1..MaxReq : LInsert(r)
    \/ \E r \in 1..MaxReq : LSaveReply(r)
    \/ \E r \in 1..MaxReq : LPingReply(r)
    \/ \E r \in 1..MaxReq : LPingTimeout(r)
    \/ \E r \in 1..MaxReq : LProbeReply(r)
    \/ \E r \in 1..MaxReq : LProbeTimeout(r)
    \/ \E r \in 1..MaxReq : LProbeCancelled(r)
    \/ \E r \in 1..MaxReq : LCancel(r)
    \/ LSignal
    \/ LGraceTimer
    \/ LGracefulStopReturns
    \/ LStartServerReturns
    \/ LNewDatabase
    \/ LRunMigrations
    \/ LListen

\* main has called StartServer: nothing is open, no request has arrived. The
\* life cycle is followed for a base URL that parses, so that every fetch and
\* probe it starts is a request in flight (Starting.baseURL).
LifeInit ==
    /\ input = NetError("context deadline exceeded")
    /\ calc = NotCalculated
    /\ fetched = NotFetched
    /\ req = [r \in 1..MaxReq |-> IdleReq]
    /\ records = <<>>
    /\ nextID = 1
    /\ now = 1753727000
    /\ srv \in {[Starting EXCEPT !.timeout = t] : t \in ClientTimeouts}
    /\ dbq = NoQuery
    /\ conf = NotLoaded

SpecLife == LifeInit /\ [][LifeNext]_vars

-----------------------------------------------------------------------------
(* Properties of the extractor and of the fetch (SpecExtract) *)

Parseable(trade) == ParseFloat(trade.Price).err = NilErr
ParseableTrades(trades) == SelectSeq(trades, Parseable)
PricesOf(trades) == [i \in DOMAIN ParseableTrades(trades) |->
                        ParseFloat(ParseableTrades(trades)[i].Price).f]

\* m is the maximum (minimum) of the prices ps in the order of float64
IsMaxOf(m, ps) == /\ \E i \in DOMAIN ps : FEq(m, ps[i])
                  /\ \A i \in DOMAIN ps : FGe(m, ps[i])
IsMinOf(m, ps) == /\ \E i \in DOMAIN ps : FEq(m, ps[i])
                  /\ \A i \in DOMAIN ps : FGe(ps[i], m)

InTrades == input.body.trades
CalcResult == [askPrice |-> calc.askPrice, bidPrice |-> calc.bidPrice, err |-> calc.err]

\* C1: for every non-empty trade list with at least one parseable price the
\* extractor succeeds with ask = the maximum and bid = the minimum of the parsed
\* prices, hence ask >= bid, and with exactly one parseable price p it returns
\* ask = bid = p.
C1_AskMaxBidMin ==
    (calc.called /\ PricesOf(InTrades) # <<>>) =>
        /\ calc.err = NilErr
        /\ IsMaxOf(calc.askPrice, PricesOf(InTrades))
        /\ IsMinOf(calc.bidPrice, PricesOf(InTrades))
        /\ FGe(calc.askPrice, calc.bidPrice)
        /\ (Len(PricesOf(InTrades)) = 1 =>
                /\ FEq(calc.askPrice, PricesOf(InTrades)[1])
                /\ FEq(calc.bidPrice, PricesOf(InTrades)[1]))

\* C8: the extractor on zero trades fails with the empty-input error and yields
\* no prices, and GetUSDTRate on a 200 reply whose body decodes to an empty
\* trade list fails with "no trades data available" and returns no Rate.
C8_EmptyInputFails ==
    /\ (calc.called /\ InTrades = <<>>) =>
          /\ calc.err = "no trades to calculate prices from"
          /\ calc.askPrice = Zero /\ calc.bidPrice = Zero
    /\ (fetched.called /\ input = Reply(StatusOK, JSONBody(<<>>))) =>
          /\ fetched.err = "no trades data available"
          /\ fetched.rate = NilRate

C8_Witness ==
    /\ fetched.called /\ calc.called
    /\ input = Reply(StatusOK, JSONBody(<<>>))
    /\ fetched.err # NilErr /\ calc.err # NilErr

\* C9 as stated: on every non-empty trade list the extractor's result equals its
\* result on the sub-list of trades with parseable prices, and it fails with the
\* no-valid-prices error iff every price is unparseable.
C9_SkipUnparseable_AsStated ==
    (calc.called /\ InTrades # <<>>) =>
        /\ CalcResult = calculatePricesFromTrades(ParseableTrades(InTrades))
        /\ (calc.err = "no valid prices found in trades") <=> (ParseableTrades(InTrades) = <<>>)

\* C9 amended: on every trade list with at least one parseable price the
\* extractor's result equals its result on the sub-list of trades with parseable
\* prices, and on a non-empty list it fails with the no-valid-prices error iff
\* every price is unparseable (the empty sub-list itself yields the empty-input
\* error).
C9_SkipUnparseable ==
    (calc.called /\ InTrades # <<>>) =>
        /\ (ParseableTrades(InTrades) # <<>> =>
                CalcResult = calculatePricesFromTrades(ParseableTrades(InTrades)))
        /\ (calc.err = "no valid prices found in trades") <=> (ParseableTrades(InTrades) = <<>>)
        /\ (calc.err = NilErr) <=> (ParseableTrades(InTrades) # <<>>)

C9_Witness ==
    /\ calc.called
    /\ Len(InTrades) = 3
    /\ ~Parseable(InTrades[1]) /\ Parseable(InTrades[2]) /\ ~Parseable(InTrades[3])
    /\ calc.err = NilErr
    /\ FEq(calc.askPrice, F(8125)) /\ FEq(calc.bidPrice, F(8125))

\* the request was created and sent, and the upstream's reply arrived
ReplyArrived == /\ NewRequestWithContext(srv.baseURL \o "/api/v2/trades") = NilErr
                /\ input.neterr = NilErr

GoodReply == /\ ReplyArrived /\ input.readerr = NilErr /\ input.status = StatusOK
             /\ input.body.json /\ ParseableTrades(InTrades) # <<>>

\* C10: the timestamp of the quote GetUSDTRate produces is the created_at of the
\* trade at index 0, whether or not that trade's price parsed and whichever
\* trades supplied ask and bid; when that created_at is no RFC3339 instant the
\* current wall-clock time is used and the fetch still succeeds.
C10_TimestampOfFirstTrade ==
    (fetched.called /\ GoodReply) =>
        /\ fetched.err = NilErr
        /\ ~fetched.rate.nil
        /\ LET ts == ParseRFC3339(InTrades[1].CreatedAt)
           IN  fetched.rate.Timestamp = (IF ts.err = NilErr THEN ts.t ELSE now)

C10_Witness ==
    /\ fetched.called /\ GoodReply
    /\ Len(InTrades) = 3
    /\ ~Parseable(InTrades[1])
    /\ InTrades[1].CreatedAt = "2025-07-28T21:19:53+03:00"
    /\ InTrades[2].CreatedAt = "2025-07-28T21:22:14+03:00"
    /\ InTrades[3].CreatedAt = "2025-07-28 21:22:14"
    /\ fetched.rate.Timestamp = 1753726793
    /\ FEq(fetched.rate.AskPrice, F(8130)) /\ FEq(fetched.rate.BidPrice, F(8120))

-----------------------------------------------------------------------------
(* Properties of the handlers (Spec) *)

Reqs == 1..MaxReq
DoneGetRates(r) == req[r].kind = "GetRates" /\ req[r].pc = "done"
DoneHealth(r) == req[r].kind = "Healthcheck" /\ req[r].pc = "done"
Persisted(rec) == \E i \in DOMAIN records : records[i] = rec

\* C2: GetRates never returns a quote when the persistence step fails: when the
\* fetch succeeded and SaveRate returned an error the call returns an error and
\* no quote, and a returned quote is always the quote of a row this request wrote.
C2_NoQuoteWithoutPersistence ==
    \A r \in Reqs : DoneGetRates(r) =>
        /\ (req[r].saveErr # NilErr =>
                /\ req[r].resp = NilRate
                /\ req[r].err = "failed to save rate to database: " \o req[r].saveErr)
        /\ (~req[r].resp.nil =>
                /\ req[r].err = NilErr /\ req[r].saveErr = NilErr
                /\ req[r].saveCalls = 1
                /\ Persisted(req[r].dbRecord))

C2_Witness ==
    \E r \in Reqs :
        /\ DoneGetRates(r)
        /\ req[r].fetchErr = NilErr /\ ~req[r].rate.nil
        /\ req[r].saveErr # NilErr /\ req[r].saveCalls = 1
        /\ req[r].resp = NilRate /\ req[r].err # NilErr
        /\ ~Persisted(req[r].dbRecord)

\* C3: any error of the fetch step aborts GetRates: the call returns that error
\* (wrapped) and no quote, SaveRate is never invoked for the request, and the
\* step leaves the persisted records unchanged.
C3_FetchErrorAborts ==
    /\ [](\A r \in Reqs : (req[r].kind = "GetRates" /\ req[r].fetchErr # NilErr) =>
            /\ req[r].pc = "done"
            /\ req[r].resp = NilRate
            /\ req[r].err = "failed to get rate from Grinex: " \o req[r].fetchErr
            /\ req[r].saveCalls = 0)
    /\ [][\A r \in Reqs : (req[r].pc = "idle" /\ req'[r].fetchErr # NilErr) =>
            (records' = records /\ nextID' = nextID)]_vars

C3_Witness ==
    \E r, o \in Reqs :
        /\ DoneGetRates(r) /\ req[r].fetchErr # NilErr /\ req[r].saveCalls = 0
        /\ req[r].resp = NilRate
        /\ DoneGetRates(o) /\ ~req[o].resp.nil
        /\ records = <<req[o].dbRecord>>

HealthResp(status, message) == [nil |-> FALSE, Status |-> status, Message |-> message]

\* C4: whenever the store probe fails Healthcheck returns status "unhealthy"
\* with a message carrying the store failure detail and also a call-level
\* error; the client probe plays no part in that outcome.
C4_StoreFailureUnhealthy ==
    \A r \in Reqs : (req[r].kind = "Healthcheck" /\ req[r].storeProbeErr # NilErr) =>
        /\ req[r].pc = "done"
        /\ req[r].hresp = HealthResp("unhealthy",
                "Database health check failed: " \o req[r].storeProbeErr)
        /\ req[r].err = "database health check failed: " \o req[r].storeProbeErr
        /\ req[r].clientProbes = 0

C4_Witness ==
    \E r \in Reqs :
        /\ DoneHealth(r) /\ req[r].storeProbeErr = "pq: connection refused"
        /\ req[r].hresp.Status = "unhealthy" /\ req[r].err # NilErr

\* C5: whenever the store probe succeeds and the client probe fails Healthcheck
\* returns status "degraded" with a message carrying the client failure detail
\* and no call-level error.
C5_ClientFailureDegraded ==
    \A r \in Reqs : (DoneHealth(r) /\ req[r].storeProbeErr = NilErr
                     /\ req[r].clientProbeErr # NilErr) =>
        /\ req[r].hresp = HealthResp("degraded",
                "Grinex API health check failed: " \o req[r].clientProbeErr)
        /\ req[r].err = NilErr

C5_Witness ==
    \E r \in Reqs :
        /\ DoneHealth(r) /\ req[r].storeProbeErr = NilErr
        /\ req[r].clientProbeErr = "health check failed with status 500"
        /\ req[r].hresp.Status = "degraded" /\ req[r].err = NilErr

\* C6: Healthcheck returns "healthy" with the fixed message and no call-level
\* error exactly when both probes succeed, and the call fails only when the
\* store probe fails.
C6_HealthyIffBothProbesSucceed ==
    \A r \in Reqs : DoneHealth(r) =>
        /\ (req[r].hresp.Status = "healthy") <=>
                (req[r].storeProbeErr = NilErr /\ req[r].clientProbeErr = NilErr)
        /\ (req[r].hresp.Status = "healthy" =>
                /\ req[r].hresp.Message = "Service is healthy"
                /\ req[r].err = NilErr
                /\ req[r].clientProbes = 1)
        /\ (req[r].err # NilErr) <=> (req[r].storeProbeErr # NilErr)

C6_Witness ==
    \E r \in Reqs :
        /\ DoneHealth(r) /\ req[r].storeProbeErr = NilErr /\ req[r].clientProbeErr = NilErr
        /\ req[r].clientProbes = 1
        /\ req[r].hresp = HealthResp("healthy", "Service is healthy") /\ req[r].err = NilErr

\* C7: in every reachable state every quote GetRates returned and every record
\* persisted in the store has askPrice >= bidPrice.
C7_AskGeBidEverywhere ==
    /\ \A i \in DOMAIN records : FGe(records[i].AskPrice, records[i].BidPrice)
    /\ \A r \in Reqs : (DoneGetRates(r) /\ ~req[r].resp.nil) =>
            FGe(req[r].resp.AskPrice, req[r].resp.BidPrice)

\* the permutations of 1..n, for every length n a trade list can have
IndexPermutations ==
    [n \in 0..MaxTrades |->
        {q \in [1..n -> 1..n] : \A i, j \in 1..n : q[i] = q[j] => i = j}]

\* every reordering of the sequence s
Reorderings(s) == {[i \in DOMAIN s |-> s[p[i]]] : p \in IndexPermutations[Len(s)]}

\* the state right after the extractor returned on the trade list of a 200 reply
\* (every trade list of the harness occurs in one such state)
ExtractorJustCalled == calc.called /\ ~fetched.called /\ input.status = StatusOK

\* C11: the extractor's result does not depend on the order of the trades: on
\* every reordering of the input list calculatePricesFromTrades returns the same
\* ask, the same bid and the same error outcome.
C11_OrderIrrelevant ==
    ExtractorJustCalled =>
        \A p \in Reorderings(InTrades) : calculatePricesFromTrades(p) = CalcResult

C11_Witness ==
    /\ ExtractorJustCalled
    /\ Len(InTrades) = 3
    /\ InTrades[1].Price = "81.25" /\ InTrades[2].Price = "81.30" /\ InTrades[3].Price = "81.20"
    /\ calc.err = NilErr
    /\ FEq(calc.askPrice, F(8130)) /\ FEq(calc.bidPrice, F(8120))

\* C13: whenever the upstream reply arrives with a status other than 200,
\* GetUSDTRate fails with the upstream-status error carrying the status code
\* and the body text read from the reply, whatever the body holds (a valid
\* trade list included), and returns no Rate: nothing is decoded or extracted.
C13_NonOKStatusFails ==
    (fetched.called /\ ReplyArrived /\ input.status # StatusOK) =>
        /\ fetched.rate = NilRate
        /\ fetched.err = "API request failed with status " \o ToString(input.status)
                         \o ": " \o BodyText(input.body)

C13_Witness ==
    /\ fetched.called
    /\ ReplyArrived /\ input.readerr = NilErr
    /\ input.status = StatusInternalServerError
    /\ input.body.json /\ Len(InTrades) = 2
    /\ Parseable(InTrades[1]) /\ Parseable(InTrades[2])
    /\ calc.err = NilErr
    /\ fetched.rate.nil /\ fetched.err # NilErr

\* the quote fields of a stored record
QuoteOf(rec) == [nil |-> FALSE, TradingPair |-> rec.TradingPair, AskPrice |-> rec.AskPrice,
                 BidPrice |-> rec.BidPrice, Timestamp |-> rec.Timestamp]

\* C12: when GetRates succeeds its response carries the pair, ask, bid and
\* timestamp of the record this request persisted and the pair is "USDT/RUB";
\* the record is built when the fetch returns, with CreatedAt = the time of that
\* moment and without touching the store; the INSERT of a request takes
\* effect while the request waits in SaveRate after its fetch, adding that
\* record under the next id; and the step that returns the quote finds the
\* record in the table, under the id SaveRate read, and leaves the table alone.
C12_ResponseIsPersistedRecord ==
    /\ [](\A r \in Reqs : (DoneGetRates(r) /\ ~req[r].resp.nil) =>
            /\ req[r].fetchErr = NilErr /\ req[r].saveCalls = 1
            /\ req[r].resp.TradingPair = "USDT/RUB"
            /\ req[r].resp = QuoteOf(req[r].dbRecord)
            /\ Persisted(req[r].dbRecord))
    /\ [][\A r \in Reqs : (req[r].pc = "idle" /\ req'[r].pc = "fetched") =>
            /\ req'[r].dbRecord.CreatedAt = now
            /\ records' = records]_vars
    /\ [][\A r \in Reqs : (~req[r].saveReply.sent /\ req'[r].saveReply.committed) =>
            /\ req[r].pc = "fetched" /\ req'[r].pc = "fetched"
            /\ req[r].fetchErr = NilErr
            /\ records' = Append(records, [req[r].dbRecord EXCEPT !.ID = nextID])]_vars
    /\ [][\A r \in Reqs : (req[r].pc = "fetched" /\ ~req'[r].resp.nil) =>
            /\ req'[r].pc = "done"
            /\ req[r].saveReply.committed
            /\ req'[r].dbRecord = [req[r].dbRecord EXCEPT !.ID = req'[r].dbRecord.ID]
            /\ Persisted(req'[r].dbRecord)
            /\ records' = records]_vars

C12_Witness ==
    \E r \in Reqs :
        /\ DoneGetRates(r) /\ ~req[r].resp.nil /\ req[r].err = NilErr
        /\ now = 1753727001
        /\ records = <<req[r].dbRecord>>
        /\ records[1].CreatedAt = 1753727000
        /\ records[1].ID = 1
        /\ req[r].resp.Timestamp = 1753726934
        /\ FEq(req[r].resp.AskPrice, F(8130)) /\ FEq(req[r].resp.BidPrice, F(8125))

\* C14: no retries.  A GetRates request calls GetUSDTRate at most once and
\* SaveRate at most once and never probes; a Healthcheck request probes the
\* store at most once and the client at most once and never fetches or saves.
\* A failed fetch, write or store probe ends the request with a call error, and
\* a failed client probe ends it with the "degraded" status; nothing is
\* attempted again after a failure.
C14_NoRetries ==
    \A r \in Reqs :
        /\ req[r].fetchCalls <= 1 /\ req[r].saveCalls <= 1
        /\ req[r].storeProbes <= 1 /\ req[r].clientProbes <= 1
        /\ req[r].kind = "GetRates" => (req[r].storeProbes = 0 /\ req[r].clientProbes = 0)
        /\ req[r].kind = "Healthcheck" => (req[r].fetchCalls = 0 /\ req[r].saveCalls = 0)
        /\ req[r].fetchErr # NilErr =>
                (req[r].pc = "done" /\ req[r].err # NilErr /\ req[r].saveCalls = 0)
        /\ req[r].saveErr # NilErr => (req[r].pc = "done" /\ req[r].err # NilErr)
        /\ req[r].storeProbeErr # NilErr =>
                (req[r].pc = "done" /\ req[r].err # NilErr /\ req[r].clientProbes = 0)
        /\ req[r].clientProbeErr # NilErr =>
                (req[r].pc = "done" /\ req[r].hresp.Status = "degraded")

C14_Witness ==
    \E r, o \in Reqs :
        /\ DoneGetRates(r) /\ req[r].saveErr # NilErr
        /\ req[r].fetchCalls = 1 /\ req[r].saveCalls = 1 /\ req[r].err # NilErr
        /\ DoneHealth(o) /\ req[o].clientProbeErr # NilErr
        /\ req[o].storeProbes = 1 /\ req[o].clientProbes = 1
        /\ records = <<>>

\* the rows of the store before the step are still there after it, unchanged
RowsKept == /\ Len(records') >= Len(records)
            /\ \A i \in DOMAIN records : records'[i] = records[i]

Succeeded(r) == DoneGetRates(r) /\ ~req[r].resp.nil

\* a GetRates request whose INSERT took effect has returned its quote
WritersSucceeded ==
    \A r \in Reqs : (DoneGetRates(r) /\ req[r].saveReply.committed) => Succeeded(r)

\* the step is the INSERT of request r taking effect: r waits in SaveRate after
\* a successful fetch, its record is added under the next id, and no handler
\* moves
InsertOf(r) ==
    /\ req[r].kind = "GetRates" /\ req[r].pc = "fetched" /\ req[r].fetchErr = NilErr
    /\ ~req[r].saveReply.sent /\ req'[r].saveReply.committed
    /\ req'[r].pc = "fetched"
    /\ \A o \in Reqs \ {r} : req'[o] = req[o]
    /\ records' = Append(records, [req[r].dbRecord EXCEPT !.ID = nextID])

\* every step keeps the rows and adds at most one, a changed table is the INSERT
\* of one request, and no step of a Healthcheck request, no step that ends a
\* request and no fetch step changes the table
AccumulateStep ==
    /\ RowsKept
    /\ Len(records') <= Len(records) + 1
    /\ records' # records => \E r \in Reqs : InsertOf(r)
    /\ \A r \in Reqs :
          (req'[r] # req[r] /\ (\/ req'[r].kind = "Healthcheck"
                                \/ req'[r].fetchErr # NilErr
                                \/ req[r].pc = "idle"
                                \/ req'[r].pc = "done")) =>
             records' = records

\* C15 as stated: persisted records are immutable and only accumulate, steps of
\* Healthcheck requests and failed fetches leave the rows as they are, and the
\* rows change only by a successful GetRates adding one record: a request whose
\* row was added returns its quote.
C15_RecordsOnlyAccumulate_AsStated ==
    /\ [][AccumulateStep]_vars
    /\ []WritersSucceeded

\* C15 amended: persisted records are immutable and only accumulate.  Every
\* step keeps every row already written, with all its fields; the rows change
\* only by the INSERT of a GetRates request whose fetch succeeded, which adds
\* exactly one row (that request's record) while the request waits in SaveRate;
\* the steps of Healthcheck requests, fetch steps (failed or not) and the steps
\* in which a request returns leave the rows as they are; and the record of a
\* request that returned its quote is in the table.  (The request whose row was
\* added may still return an error, when the answer to its INSERT is lost.)
C15_RecordsOnlyAccumulate ==
    /\ [][AccumulateStep]_vars
    /\ [](\A r \in Reqs : Succeeded(r) => Persisted(req[r].dbRecord))

\* one request has returned its quote and its row is there; the other's row is
\* there too, but the answer to its INSERT was lost and it returned an error
C15_Witness ==
    \E r, o \in Reqs :
        /\ DoneGetRates(r) /\ ~req[r].resp.nil
        /\ DoneGetRates(o) /\ req[o].resp.nil /\ req[o].saveReply.committed
        /\ req[o].err # NilErr
        /\ records = <<req[r].dbRecord, [req[o].dbRecord EXCEPT !.ID = 2]>>
        /\ records[1].ID = 1

\* C16: concurrent GetRates requests are independent under every interleaving.
\* Each request that returned made its own fetch, and its outcome is determined
\* by the result of its own fetch and of its own write alone; the requests that
\* succeeded made one write each, the store holds exactly one row per INSERT
\* that took effect, the record of each succeeded request among them exactly
\* once, so that requests that all succeeded leave as many rows as there are
\* requests, and the ids of the rows are pairwise distinct.
C16_ConcurrentRequestsIndependent ==
    /\ \A r \in Reqs : DoneGetRates(r) =>
          /\ req[r].fetchCalls = 1
          /\ req[r].resp = (IF req[r].fetchErr = NilErr /\ req[r].saveErr = NilErr
                            THEN req[r].rate ELSE NilRate)
          /\ req[r].err = (IF req[r].fetchErr # NilErr
                           THEN "failed to get rate from Grinex: " \o req[r].fetchErr
                           ELSE IF req[r].saveErr # NilErr
                           THEN "failed to save rate to database: " \o req[r].saveErr
                           ELSE NilErr)
          /\ (Succeeded(r) =>
                /\ req[r].saveCalls = 1
                /\ Cardinality({i \in DOMAIN records : records[i].ID = req[r].dbRecord.ID}) = 1
                /\ Persisted(req[r].dbRecord))
    /\ Len(records) = Cardinality({r \in Reqs : req[r].saveReply.committed})
    /\ (\A r \in Reqs : Succeeded(r)) => Len(records) = MaxReq
    /\ \A i, j \in DOMAIN records : records[i].ID = records[j].ID => i = j

C16_Witness ==
    /\ \A r \in Reqs : Succeeded(r)
    /\ Len(records) = MaxReq
    /\ records[1] = req[2].dbRecord /\ records[2] = req[1].dbRecord
    /\ req[2].dbRecord.ID = 1 /\ req[1].dbRecord.ID = 2
    /\ req[1].resp # req[2].resp

\* the result of a health request as a function of the two probe outcomes
\* (ce is the nil error when the client was not probed)
HealthOutcome(se, ce) ==
    IF se # NilErr
    THEN [hresp |-> HealthResp("unhealthy", "Database health check failed: " \o se),
          err |-> "database health check failed: " \o se]
    ELSE IF ce # NilErr
    THEN [hresp |-> HealthResp("degraded", "Grinex API health check failed: " \o ce),
          err |-> NilErr]
    ELSE [hresp |-> HealthResp("healthy", "Service is healthy"), err |-> NilErr]

\* C17: Healthcheck has no caching and no hysteresis: the status, message and
\* error of every health request that returned are a function of the store
\* probe outcome and the client probe outcome of that request only, so two
\* health requests with the same probe outcomes return the same result whatever
\* requests came before them.
C17_HealthIsFunctionOfProbes ==
    /\ \A r \in Reqs : DoneHealth(r) =>
          [hresp |-> req[r].hresp, err |-> req[r].err]
              = HealthOutcome(req[r].storeProbeErr, req[r].clientProbeErr)
    /\ \A r, o \in Reqs :
          (/\ DoneHealth(r) /\ DoneHealth(o)
           /\ req[r].storeProbeErr = req[o].storeProbeErr
           /\ req[r].clientProbeErr = req[o].clientProbeErr) =>
              (req[r].hresp = req[o].hresp /\ req[r].err = req[o].err)

C17_Witness ==
    /\ DoneHealth(1) /\ req[1].hresp.Status = "degraded"
    /\ req[1].clientProbeErr = "health check request failed: Get "
                               \o "\"https://grinex.io/api/v2/markets\": "
                               \o "context deadline exceeded"
    /\ DoneHealth(2) /\ req[2].storeProbeErr = NilErr /\ req[2].clientProbeErr = NilErr
    /\ req[2].hresp = HealthResp("healthy", "Service is healthy")
    /\ req[2].storeProbes = 1 /\ req[2].clientProbes = 1

\* C24: Healthcheck probes in a fixed order with short-circuit.  The first
\* step of a health request is the store probe; the client probe is made only
\* by a request whose store probe has been made and succeeded; a finished
\* health request has made the client probe if and only if its store probe
\* succeeded, and after a failed store probe no request goes to the upstream.
C24_StoreProbeFirstThenClient ==
    /\ [](\A r \in Reqs : req[r].kind = "Healthcheck" =>
            /\ req[r].storeProbes = 1
            /\ req[r].pc = "probed" => (req[r].storeProbeErr = NilErr /\ req[r].clientProbes = 0)
            /\ req[r].pc = "done" =>
                  (req[r].clientProbes = 1 <=> req[r].storeProbeErr = NilErr)
            /\ req[r].storeProbeErr # NilErr => req[r].clientProbes = 0)
    /\ [][\A r \in Reqs :
            /\ (req[r].pc = "idle" /\ req'[r].kind = "Healthcheck") =>
                  (req'[r].storeProbes = 1 /\ req'[r].clientProbes = 0)
            /\ req'[r].clientProbes > req[r].clientProbes =>
                  (req[r].pc = "probed" /\ req[r].storeProbes = 1
                   /\ req[r].storeProbeErr = NilErr)]_vars

C24_Witness ==
    \E r, o \in Reqs :
        /\ DoneHealth(r) /\ req[r].storeProbeErr # NilErr
        /\ req[r].storeProbes = 1 /\ req[r].clientProbes = 0
        /\ DoneHealth(o) /\ req[o].storeProbeErr = NilErr
        /\ req[o].storeProbes = 1 /\ req[o].clientProbes = 1
        /\ req[o].hresp.Status = "degraded"

-----------------------------------------------------------------------------
(* Properties of the life cycle (SpecLife) *)

\* a step by which request r gives up a pending call because its time is up
TimeoutStep(r) == LFetchTimeout(r) \/ LPingTimeout(r) \/ LProbeTimeout(r)

\* a step by which request r abandons a pending call because its context is cancelled
AbortStep(r) == LFetchCancelled(r) \/ LProbeCancelled(r)

\* C18: every call a request waits in is bounded by a timeout: whenever a
\* request is blocked in the upstream HTTP call, in the store probe or in the
\* database write, the step that gives the call up with a timeout error is
\* possible, so no request depends on its dependency answering.
C18_EveryPendingCallHasTimeout ==
    \A r \in Reqs : InFlight(r) => ENABLED TimeoutStep(r)

\* C19: cancellation propagates to every pending call: a request whose context
\* is cancelled while it waits in a call can abandon that call, and no record
\* is written for a request that was cancelled before its write completed.
C19_CancellationAbortsPendingCalls ==
    \A r \in srv.cancelled :
        /\ InFlight(r) => ENABLED AbortStep(r)
        /\ ~Succeeded(r)

\* C20: shutdown is bounded: once the grace period that began with the signal
\* has elapsed, StartServer can finish its shutdown (GracefulStop returns or
\* StartServer itself returns) whether or not a request is still in flight.
C20_ShutdownBoundedByGracePeriod ==
    (srv.graceElapsed /\ srv.phase # "returned") =>
        ENABLED (LGracefulStopReturns \/ LStartServerReturns)

-----------------------------------------------------------------------------
(* Properties of the store queries (SpecStore) *)

\* C21: GetLatestRate never returns a nil record without an error.  When the
\* store answers the query: if the table holds no row of the pair the call
\* fails with the not-found error naming the pair, and otherwise it returns a
\* row of that pair whose created_at is the greatest among the rows of the
\* pair; after exactly one save to the empty table it returns the saved record
\* (the record SaveRate handed back, when SaveRate returned without error).
\* When the driver fails the call fails with the driver's error, wrapped.
C21_LatestRate ==
    dbq.op = "GetLatestRate" =>
        /\ dbq.isNil <=> dbq.err # NilErr
        /\ dbq.dberr # NilErr => dbq.err = "failed to get latest rate: " \o dbq.dberr
        /\ (dbq.dberr = NilErr /\ RowsOfPair(records, dbq.pair) = {}) =>
              (dbq.isNil /\ dbq.err = "no rate found for trading pair: " \o dbq.pair)
        /\ (dbq.dberr = NilErr /\ RowsOfPair(records, dbq.pair) # {}) =>
              /\ ~dbq.isNil /\ dbq.err = NilErr
              /\ \E i \in RowsOfPair(records, dbq.pair) : records[i] = dbq.record
              /\ \A j \in RowsOfPair(records, dbq.pair) :
                    dbq.record.CreatedAt >= records[j].CreatedAt
        /\ (dbq.dberr = NilErr /\ Len(records) = 1 /\ records[1].TradingPair = dbq.pair) =>
              /\ dbq.record = records[1]
              /\ dbq.saved # NilRecord => dbq.record = dbq.saved

C21_Witness ==
    /\ dbq.op = "GetLatestRate" /\ dbq.pair = "USDT/RUB" /\ dbq.dberr = NilErr
    /\ Len(records) = 3
    /\ records[1].TradingPair = "USDT/RUB" /\ records[1].CreatedAt = 1753727001
    /\ records[2].TradingPair = "BTC/USDT" /\ records[2].CreatedAt = 1753727002
    /\ records[3].TradingPair = "USDT/RUB" /\ records[3].CreatedAt = 1753727000
    /\ ~dbq.isNil /\ dbq.record = records[1] /\ dbq.record.ID = 1

\* the rows of the pair of the last query whose created_at lies in its range
InRangeOfQuery == RowsInRange(records, dbq.pair, dbq.start, dbq.end)

\* C22: when the store answers, GetRatesByTimeRange(pair, start, end) returns
\* exactly the rows of the pair with start <= created_at <= end, both bounds
\* inclusive, each once, ordered by created_at descending, and the empty
\* sequence with no error when no row falls in the range.  When the driver
\* fails the call returns the wrapped error and no rows.
C22_RatesByTimeRange ==
    dbq.op = "GetRatesByTimeRange" =>
        /\ dbq.dberr # NilErr => (dbq.err # NilErr /\ dbq.rows = <<>>)
        /\ dbq.dberr = NilErr =>
              /\ dbq.err = NilErr
              /\ Len(dbq.rows) = Cardinality(InRangeOfQuery)
              /\ \A i \in InRangeOfQuery : \E k \in DOMAIN dbq.rows : dbq.rows[k] = records[i]
              /\ \A k \in DOMAIN dbq.rows :
                    /\ dbq.rows[k].TradingPair = dbq.pair
                    /\ dbq.start <= dbq.rows[k].CreatedAt
                    /\ dbq.rows[k].CreatedAt <= dbq.end
              /\ \A a, b \in DOMAIN dbq.rows :
                    a < b => dbq.rows[a].CreatedAt >= dbq.rows[b].CreatedAt
              /\ InRangeOfQuery = {} => dbq.rows = <<>>

C22_Witness ==
    /\ dbq.op = "GetRatesByTimeRange" /\ dbq.pair = "USDT/RUB" /\ dbq.dberr = NilErr
    /\ dbq.start = 1753727001 /\ dbq.end = 1753727002
    /\ Len(records) = 3
    /\ records[1].TradingPair = "USDT/RUB" /\ records[1].CreatedAt = 1753727001
    /\ records[2].TradingPair = "USDT/RUB" /\ records[2].CreatedAt = 1753727000
    /\ records[3].TradingPair = "USDT/RUB" /\ records[3].CreatedAt = 1753727002
    /\ dbq.rows = <<records[3], records[1]>>

-----------------------------------------------------------------------------
(* Properties of Load (SpecConfig) *)

\* the options of the configuration: environment variable, flag ("" when the
\* option has none) and the default of the field
Options ==
    {[env |-> "SERVER_PORT", flag |-> "port", default |-> "8080"],
     [env |-> "DB_HOST", flag |-> "db-host", default |-> "localhost"],
     [env |-> "DB_PORT", flag |-> "db-port", default |-> 5460],
     [env |-> "DB_USER", flag |-> "db-user", default |-> "db_admin"],
     [env |-> "DB_PASSWORD", flag |-> "db-password", default |-> "3Qv@e8U0ImT"],
     [env |-> "DB_NAME", flag |-> "db-name", default |-> "grinex_rates"],
     [env |-> "DB_SSLMODE", flag |-> "db-sslmode", default |-> "disable"],
     [env |-> "GRINEX_BASE_URL", flag |-> "grinex-base-url", default |-> "https://grinex.io"],
     [env |-> "GRINEX_TIMEOUT", flag |-> "grinex-timeout", default |-> 30],
     [env |-> "GRINEX_USER_AGENT", flag |-> "", default |-> "GrinexRateService/1.0"],
     [env |-> "LOG_LEVEL", flag |-> "log-level", default |-> "info"]}

\* the field of the Config an option sets
FieldOf(cfg, o) ==
    CASE o.env = "SERVER_PORT" -> cfg.Server.Port
      [] o.env = "DB_HOST" -> cfg.Database.Host
      [] o.env = "DB_PORT" -> cfg.Database.Port
      [] o.env = "DB_USER" -> cfg.Database.User
      [] o.env = "DB_PASSWORD" -> cfg.Database.Password
      [] o.env = "DB_NAME" -> cfg.Database.DBName
      [] o.env = "DB_SSLMODE" -> cfg.Database.SSLMode
      [] o.env = "GRINEX_BASE_URL" -> cfg.Grinex.BaseURL
      [] o.env = "GRINEX_TIMEOUT" -> cfg.Grinex.Timeout
      [] o.env = "GRINEX_USER_AGENT" -> cfg.Grinex.UserAgent
      [] o.env = "LOG_LEVEL" -> cfg.Logging.Level

\* a string value of an option as the value of its field
AsField(o, s) ==
    CASE o.env = "DB_PORT" -> Atoi(s).n
      [] o.env = "GRINEX_TIMEOUT" -> ParseDuration(s).d
      [] OTHER -> s

\* the option is given in the environment with a value that parses
EnvGiven(o) ==
    /\ conf.env[o.env] # ""
    /\ o.env = "DB_PORT" => Atoi(conf.env[o.env]).err = NilErr
    /\ o.env = "GRINEX_TIMEOUT" => ParseDuration(conf.env[o.env]).err = NilErr

\* the option is given on the command line
ByFlag(o) == o.flag # "" /\ FlagGiven(conf.args, o.flag)

\* C23: every option is overridable through both channels: after Load, an
\* option given only by its flag has the flag's value in its Config field, an
\* option given only by its environment variable has that variable's value,
\* and an option given by neither has its default.
C23_EveryOptionOverridable ==
    conf.loaded =>
        \A o \in Options :
            /\ (ByFlag(o) /\ ~EnvGiven(o)) =>
                  FieldOf(conf.cfg, o) = (IF o.flag = "db-port" THEN conf.args[o.flag]
                                          ELSE AsField(o, conf.args[o.flag]))
            /\ (EnvGiven(o) /\ ~ByFlag(o)) =>
                  FieldOf(conf.cfg, o) = AsField(o, conf.env[o.env])
            /\ (~EnvGiven(o) /\ ~ByFlag(o) /\ conf.env[o.env] = "") =>
                  FieldOf(conf.cfg, o) = o.default

\* a handler of request r is inside a call on the store
InStoreCall(r) == req[r].pc \in {"fetched", "pinging"}

\* C25: the store handle is opened before any request is accepted and is
\* closed exactly once on the way out of StartServer: once StartServer has
\* returned, a handle that was opened has been closed by exactly one Close.
\* The handle is closed only when StartServer returns, with no request in
\* flight; no handler is ever inside a store call on a closed handle; and when
\* database initialisation or the migrations fail StartServer returns an error
\* without having listened or served.
C25_StoreHandleLifetime ==
    /\ \A r \in Reqs : req[r].pc # "idle" => srv.db # "none"
    /\ srv.closeCalls <= 1
    /\ (srv.phase = "returned" /\ srv.db # "none") =>
            (srv.db = "closed" /\ srv.closeCalls = 1)
    /\ srv.db = "closed" => (srv.phase = "returned" /\ \A r \in Reqs : ~InFlight(r))
    /\ \A r \in Reqs : InStoreCall(r) => srv.db = "open"
    /\ (srv.phase = "returned" /\ ~srv.listened) =>
            (srv.err # NilErr /\ \A r \in Reqs : req[r].pc = "idle")

====
